---- MODULE Spec2Model ----
(***************************************************************************)
(* The card game "War" of src/rust/src/main.rs: Deck (a queue of card      *)
(* ranks), GameState::step (one round, with its war loop), play_game (the  *)
(* driver loop) and Score::to_int.                                         *)
(***************************************************************************)
EXTENDS Integers, Sequences, FiniteSets

VARIABLES
    computer,       \* self.computer: the computer's deck, front first
    player,         \* self.player: the player's deck, front first
    moves,          \* self.moves
    stepped,        \* "New" before the first call of step, then the variant step returned
    score,          \* the Score carried by Done, NoScore otherwise
    computer_pile,  \* step's local computer_pile when the last call left its loop
    player_pile,    \* step's local player_pile when the last call left its loop
    ties,           \* Ordering::Equal comparisons in the last call of step
    before,         \* the GameState the last call of step consumed
    calls,          \* calls of step made by play_game so far
    args,           \* the Scores handed to to_int
    vals            \* the integers to_int returned for args, in order

vars == <<computer, player, moves, stepped, score, computer_pile, player_pile,
          ties, before, calls, args, vals>>

gameVars == <<computer, player, moves, stepped, score, computer_pile, player_pile,
              ties, before, calls>>

(***************************************************************************)
(* Program constants.                                                      *)
(***************************************************************************)
MAX_MOVES == 1000000

SUITS_PER_PLAYER == 256

\* the lowest rank of new_half_deck's run 2..15
MinRank == 2

\* the number of ranks in new_half_deck's run 2..15, the literal 13 of to_int
RANKS_PER_SUIT == 13

\* the exclusive end of new_half_deck's run 2..15
RANK_END == 15

(***************************************************************************)
(* Bounds of the model.                                                    *)
(***************************************************************************)
\* input decks hold ranks MinRank..MaxRank
MaxRank == 3

\* an input deck is some war blocks followed by at most MaxLen free cards
MaxLen == 2

\* an input deck starts with at most MaxWars blocks that tie with the opponent's
MaxWars == 2

\* input move-counts lie within MaxMovesIn of 0 or of MAX_MOVES
MaxMovesIn == 1

\* play_game is followed for at most MaxCalls calls of step
MaxCalls == 8

\* Score payloads handed to to_int lie within MaxEdge of a boundary of their range
MaxEdge == 2

\* a scaled-down new game deals GameSuits runs of GameRanks ranks to each side
GameSuits == 3

GameRanks == 2

(***************************************************************************)
(* Deck                                                                    *)
(***************************************************************************)
new_empty == <<>>

\* draw taking the card from the back (pop_back)
draw_Back(deck) ==
    IF deck = <<>>
    THEN [some |-> FALSE, deck |-> deck]
    ELSE [some |-> TRUE, card |-> deck[Len(deck)],
          deck |-> SubSeq(deck, 1, Len(deck) - 1)]

\* VecDeque::pop_front: Option<u8> and the deck it leaves
draw(deck) ==
    IF deck = <<>>
    THEN [some |-> FALSE, deck |-> deck]
    ELSE [some |-> TRUE, card |-> Head(deck), deck |-> Tail(deck)]

add(deck, card) == Append(deck, card)

RECURSIVE add_pile(_, _)
add_pile(deck, pile) ==
    IF pile = <<>> THEN deck ELSE add_pile(add(deck, Head(pile)), Tail(pile))

\* push_ranks over the inclusive range lo..=hi
RECURSIVE push_ranks_Inclusive(_, _, _)
push_ranks_Inclusive(deck, i, hi) ==
    IF i > hi THEN deck ELSE push_ranks_Inclusive(add(deck, i), i + 1, hi)

\* `for i in 2..15 { deck.push_back(i) }`, from rank i on, for the run lo..hi
RECURSIVE push_ranks(_, _, _)
push_ranks(deck, i, hi) ==
    IF i >= hi THEN deck ELSE push_ranks(add(deck, i), i + 1, hi)

\* `for _ in 0..SUITS_PER_PLAYER`: what n passes push, each pass pushing the
\* run lo..hi; the passes are split in two halves to keep the evaluation
\* shallow
RECURSIVE push_suits(_, _, _)
push_suits(n, lo, hi) ==
    IF n = 0 THEN new_empty
    ELSE IF n = 1 THEN push_ranks(new_empty, lo, hi)
    ELSE push_suits(n \div 2, lo, hi) \o push_suits(n - (n \div 2), lo, hi)

\* new_half_deck for a given number of suits and run of ranks
half_deck(suits, lo, hi) == push_suits(suits, lo, hi)

new_half_deck == half_deck(SUITS_PER_PLAYER, MinRank, RANK_END)

\* the deck without the card at position i
RemoveAt(deck, i) == SubSeq(deck, 1, i - 1) \o SubSeq(deck, i + 1, Len(deck))

\* the first position of each rank the deck holds
FirstPositions(deck) ==
    {i \in DOMAIN deck : \A j \in 1..(i - 1) : deck[j] # deck[i]}

\* rng.shuffle over the whole slice: the orders a shuffle can leave the deck
\* in, each built by picking any remaining card as the next one (picking
\* either of two equal cards gives the same order)
RECURSIVE new_shuffle(_)
new_shuffle(deck) ==
    IF deck = <<>> THEN {<<>>}
    ELSE UNION {{<<deck[i]>> \o d : d \in new_shuffle(RemoveAt(deck, i))} :
                   i \in FirstPositions(deck)}

(***************************************************************************)
(* Score and GameStepped                                                   *)
(***************************************************************************)
WinAfter(n) == [tag |-> "WinAfter", n |-> n]

LoseAfter(n) == [tag |-> "LoseAfter", n |-> n]

FinishWith(n) == [tag |-> "FinishWith", n |-> n]

TiedAt(n) == [tag |-> "TiedAt", n |-> n]

NoScore == [tag |-> "NoScore", n |-> 0]

\* to_int with the WinAfter offset of one half deck instead of two
to_int_NoDouble(s) ==
    CASE s.tag = "LoseAfter" -> s.n
      [] s.tag = "TiedAt" -> MAX_MOVES + (RANKS_PER_SUIT * SUITS_PER_PLAYER)
      [] s.tag = "FinishWith" -> MAX_MOVES + s.n
      [] s.tag = "WinAfter" ->
            MAX_MOVES + (RANKS_PER_SUIT * SUITS_PER_PLAYER) + (MAX_MOVES - s.n)

\* to_int with WinAfter growing with the move-count
to_int_SlowWins(s) ==
    CASE s.tag = "LoseAfter" -> s.n
      [] s.tag = "TiedAt" -> MAX_MOVES + (RANKS_PER_SUIT * SUITS_PER_PLAYER)
      [] s.tag = "FinishWith" -> MAX_MOVES + s.n
      [] s.tag = "WinAfter" ->
            MAX_MOVES + (RANKS_PER_SUIT * SUITS_PER_PLAYER * 2) + s.n

\* usize arithmetic; every Score evaluated here has n <= MAX_MOVES, so the
\* subtraction does not underflow
to_int(s) ==
    CASE s.tag = "LoseAfter" -> s.n
      [] s.tag = "TiedAt" -> MAX_MOVES + (RANKS_PER_SUIT * SUITS_PER_PLAYER)
      [] s.tag = "FinishWith" -> MAX_MOVES + s.n
      [] s.tag = "WinAfter" ->
            MAX_MOVES + (RANKS_PER_SUIT * SUITS_PER_PLAYER * 2) + (MAX_MOVES - s.n)

\* MAX_MOVES - moves of the WinAfter arm underflows usize (a panic in a
\* debug build, a wrapped value in a release build) exactly when
to_int_underflows(s) == s.tag = "WinAfter" /\ s.n > MAX_MOVES

\* what a call of step leaves: the variant, self at the return, the Score,
\* and the locals of the loop
Cont(st) == [st EXCEPT !.stepped = "Cont"]

Done(st, sc) == [st EXCEPT !.stepped = "Done", !.score = sc]

Panic(st) == [st EXCEPT !.stepped = "Panic"]

(***************************************************************************)
(* GameState::step                                                         *)
(***************************************************************************)
cmp(x, y) == IF x < y THEN "Less" ELSE IF x > y THEN "Greater" ELSE "Equal"

\* PlayerWins with the loser's pile appended first
PlayerWins_LoserFirst(st) ==
    Cont([st EXCEPT
        !.player = add_pile(add_pile(@, st.computer_pile), st.player_pile),
        !.moves = @ + 1])

\* PlayerWins leaving the move-count as it was
PlayerWins_NoCount(st) ==
    Cont([st EXCEPT
        !.player = add_pile(add_pile(@, st.player_pile), st.computer_pile)])

\* PlayerWins taking its own pile back and dropping the computer's pile
PlayerWins_DropsLoser(st) ==
    Cont([st EXCEPT !.player = add_pile(@, st.player_pile), !.moves = @ + 1])

\* Ordering::Less, the player wins the round
PlayerWins(st) ==
    Cont([st EXCEPT
        !.player = add_pile(add_pile(@, st.player_pile), st.computer_pile),
        !.moves = @ + 1])

\* ComputerWins with its own pile appended twice and the player's pile dropped
ComputerWins_Twice(st) ==
    Cont([st EXCEPT
        !.computer = add_pile(add_pile(@, st.computer_pile), st.computer_pile),
        !.moves = @ + 1])

\* Ordering::Greater, the computer wins the round
ComputerWins(st) ==
    Cont([st EXCEPT
        !.computer = add_pile(add_pile(@, st.computer_pile), st.player_pile),
        !.moves = @ + 1])

\* WarDraw that draws for neither side once either deck is empty
WarDraw_BothOrNone(st) ==
    LET dc == draw(st.computer)
        dp == draw(st.player)
    IN  IF dc.some /\ dp.some
        THEN [st EXCEPT !.computer = dc.deck, !.computer_pile = add(@, dc.card),
                        !.player = dp.deck, !.player_pile = add(@, dp.card)]
        ELSE st

\* one pass of `for _ in 1..4`: each side that still has a card adds it to its pile
WarDraw(st) ==
    LET dc == draw(st.computer)
        s1 == IF dc.some
              THEN [st EXCEPT !.computer = dc.deck,
                              !.computer_pile = add(@, dc.card)]
              ELSE st
        dp == draw(s1.player)
    IN  IF dp.some
        THEN [s1 EXCEPT !.player = dp.deck, !.player_pile = add(@, dp.card)]
        ELSE s1

\* WarDraws over the inclusive range 1..=4
RECURSIVE WarDraws_Inclusive(_, _)
WarDraws_Inclusive(i, st) ==
    IF i > 4 THEN st ELSE WarDraws_Inclusive(i + 1, WarDraw(st))

\* Ordering::Equal: `for _ in 1..4`, from pass i on
RECURSIVE WarDraws(_, _)
WarDraws(i, st) == IF i >= 4 THEN st ELSE WarDraws(i + 1, WarDraw(st))

\* War with fresh piles allocated at every escalation
War_ResetPiles(st) ==
    WarDraws(1, [st EXCEPT !.ties = @ + 1, !.computer_pile = new_empty,
                           !.player_pile = new_empty])

\* War with the move-count incremented at every escalation
War_CountsMove(st) == WarDraws(1, [st EXCEPT !.ties = @ + 1, !.moves = @ + 1])

War(st) == WarDraws(1, [st EXCEPT !.ties = @ + 1])

\* Exhausted reporting the move-count incremented
Exhausted_Incremented(st, dc, dp) ==
    IF ~dc.some /\ ~dp.some THEN Done(st, TiedAt(st.moves))
    ELSE IF ~dc.some THEN Done(st, WinAfter(st.moves + 1))
    ELSE Done(st, LoseAfter(st.moves))

\* Exhausted with the outcomes of the two one-sided arms exchanged
Exhausted_Swapped(st, dc, dp) ==
    IF ~dc.some /\ ~dp.some THEN Done(st, TiedAt(st.moves))
    ELSE IF ~dc.some THEN Done(st, LoseAfter(st.moves))
    ELSE Done(st, WinAfter(st.moves))

\* Exhausted testing the computer's deck alone first
Exhausted_ComputerFirst(st, dc, dp) ==
    IF ~dc.some THEN Done(st, WinAfter(st.moves))
    ELSE IF ~dp.some THEN Done(st, LoseAfter(st.moves))
    ELSE Done(st, TiedAt(st.moves))

\* the arms (None, None), (None, Some(_)) and (Some(_), None) of the match
Exhausted(st, dc, dp) ==
    IF ~dc.some /\ ~dp.some THEN Done(st, TiedAt(st.moves))
    ELSE IF ~dc.some THEN Done(st, WinAfter(st.moves))
    ELSE Done(st, LoseAfter(st.moves))

\* the primary draw of both sides and the match on the pair of Options
RECURSIVE Loop(_)
Loop(st) ==
    LET dc == draw(st.computer)
        dp == draw(st.player)
        drawn == [st EXCEPT !.computer = dc.deck, !.player = dp.deck]
    IN  IF ~dc.some \/ ~dp.some THEN Exhausted(drawn, dc, dp)
        ELSE LET piled == [drawn EXCEPT
                              !.computer_pile = add(@, dc.card),
                              !.player_pile = add(@, dp.card)]
                 ord == cmp(dc.card, dp.card)
             IN  IF ord = "Less" THEN PlayerWins(piled)
                 ELSE IF ord = "Greater" THEN ComputerWins(piled)
                 ELSE Loop(War(piled))

\* the cap check: assert!(self.moves == MAX_MOVES) panics above the cap
CapReached(st) ==
    IF st.moves = MAX_MOVES
    THEN Done(st, FinishWith(Len(st.player)))
    ELSE Panic(st)

\* step testing self.moves > MAX_MOVES
step_CapExclusive(self) ==
    LET st == [computer |-> self.computer, player |-> self.player,
               moves |-> self.moves, stepped |-> "New", score |-> NoScore,
               computer_pile |-> new_empty, player_pile |-> new_empty,
               ties |-> 0]
    IN  IF self.moves > MAX_MOVES THEN CapReached(st) ELSE Loop(st)

step(self) ==
    LET st == [computer |-> self.computer, player |-> self.player,
               moves |-> self.moves, stepped |-> "New", score |-> NoScore,
               computer_pile |-> new_empty, player_pile |-> new_empty,
               ties |-> 0]
    IN  IF self.moves >= MAX_MOVES THEN CapReached(st) ELSE Loop(st)

(***************************************************************************)
(* Input states: GameStates as the tests build them with Deck::from_vec    *)
(***************************************************************************)
Ranks == MinRank..MaxRank

Decks == UNION {[1..n -> Ranks] : n \in 0..MaxLen}

\* four cards per side whose first cards tie; the supplementary cards differ
\* between the sides
ComputerBlock == <<MinRank, MinRank, MaxRank, MaxRank>>

PlayerBlock == <<MinRank, MaxRank, MinRank, MaxRank>>

RECURSIVE Repeat(_, _)
Repeat(block, k) == IF k = 0 THEN <<>> ELSE block \o Repeat(block, k - 1)

MovesInputs == (0..MaxMovesIn) \cup ((MAX_MOVES - MaxMovesIn)..MAX_MOVES)

GameState(c, p, m) == [computer |-> c, player |-> p, moves |-> m]

InputStates ==
    {GameState(Repeat(ComputerBlock, k) \o c, Repeat(PlayerBlock, k) \o p, m) :
        k \in 0..MaxWars, c \in Decks, p \in Decks, m \in MovesInputs}

\* the GameStates of mod test
TestStates ==
    { GameState(<<>>, <<2>>, 0),
      GameState(<<2>>, <<>>, 0),
      GameState(<<2, 14, 14, 14, 2>>, <<2, 2, 2, 2, 2>>, 2),
      GameState(<<2, 3>>, <<4, 5>>, 6),
      GameState(<<4, 5>>, <<2, 3>>, 6),
      GameState(<<2, 8, 9, 10, 11>>, <<2, 3, 4, 5, 6, 7>>, 8) }

(***************************************************************************)
(* play_game and main                                                      *)
(***************************************************************************)
Init ==
    /\ \E gs \in InputStates \cup TestStates :
          /\ computer = gs.computer
          /\ player = gs.player
          /\ moves = gs.moves
          /\ before = gs
    /\ stepped = "New"
    /\ score = NoScore
    /\ computer_pile = new_empty
    /\ player_pile = new_empty
    /\ ties = 0
    /\ calls = 0
    /\ args = <<>>
    /\ vals = <<>>

\* one pass of play_game's loop: game_state.step()
Step ==
    /\ stepped \in {"New", "Cont"}
    /\ calls < MaxCalls
    /\ LET r == step(GameState(computer, player, moves))
       IN  /\ computer' = r.computer
           /\ player' = r.player
           /\ moves' = r.moves
           /\ stepped' = r.stepped
           /\ score' = r.score
           /\ computer_pile' = r.computer_pile
           /\ player_pile' = r.player_pile
           /\ ties' = r.ties
    /\ before' = GameState(computer, player, moves)
    /\ calls' = calls + 1
    /\ UNCHANGED <<args, vals>>

\* main: score.to_int() of the Score play_game returned
Report ==
    /\ stepped = "Done"
    /\ args = <<>>
    /\ args' = <<score>>
    /\ vals' = <<to_int(score)>>
    /\ UNCHANGED gameVars

Next == Step \/ Report

Spec == Init /\ [][Next]_vars

\* the Step steps, told by the count of calls: step returns from every state,
\* so a call can be made whenever the loop has a GameState to pass
NextCall ==
    /\ stepped \in {"New", "Cont"}
    /\ calls < MaxCalls
    /\ calls' = calls + 1

\* play_game's loop runs on: a call of step that can be made is made
SpecFair == Init /\ [][Next]_vars /\ WF_calls(NextCall)

(***************************************************************************)
(* GameState::new, scaled down, then play_game and main                    *)
(***************************************************************************)
game_half_deck == half_deck(GameSuits, MinRank, MinRank + GameRanks)

InitGame ==
    /\ computer = game_half_deck
    /\ player \in new_shuffle(game_half_deck)
    /\ moves = 0
    /\ before = GameState(computer, player, moves)
    /\ stepped = "New"
    /\ score = NoScore
    /\ computer_pile = new_empty
    /\ player_pile = new_empty
    /\ ties = 0
    /\ calls = 0
    /\ args = <<>>
    /\ vals = <<>>

SpecGame == InitGame /\ [][Next]_vars

(***************************************************************************)
(* Score::to_int as a function of its argument alone                       *)
(***************************************************************************)
HalfCards == RANKS_PER_SUIT * SUITS_PER_PLAYER

AllCards == 2 * HalfCards

MoveEdges == (0..MaxEdge) \cup ((MAX_MOVES - MaxEdge)..MAX_MOVES)

CardEdges ==
    (0..MaxEdge) \cup ((HalfCards - MaxEdge)..(HalfCards + MaxEdge))
        \cup ((AllCards - MaxEdge)..AllCards)

ScoreInputs ==
    {WinAfter(m) : m \in MoveEdges} \cup {LoseAfter(m) : m \in MoveEdges}
        \cup {TiedAt(m) : m \in MoveEdges} \cup {FinishWith(c) : c \in CardEdges}

InitScore ==
    /\ args \in ScoreInputs \X ScoreInputs
    /\ vals = <<>>
    /\ computer = new_empty
    /\ player = new_empty
    /\ moves = 0
    /\ before = GameState(new_empty, new_empty, 0)
    /\ stepped = "New"
    /\ score = NoScore
    /\ computer_pile = new_empty
    /\ player_pile = new_empty
    /\ ties = 0
    /\ calls = 0

\* to_int applied to the next Score of args
ToInt ==
    /\ Len(vals) < Len(args)
    /\ vals' = Append(vals, to_int(args[Len(vals) + 1]))
    /\ UNCHANGED <<args, gameVars>>

NextScore == ToInt

SpecScore == InitScore /\ [][NextScore]_vars

(***************************************************************************)
(* Properties of step                                                      *)
(***************************************************************************)
\* the cards of a deck with their multiplicities
CardBag(deck) ==
    [c \in {deck[i] : i \in DOMAIN deck} |->
        Cardinality({i \in DOMAIN deck : deck[i] = c})]

Returned == calls > 0

\* C1: whenever step returns Cont, after a round with or without wars, the
\* two decks together hold the same multiset of cards as the two decks of the
\* state it consumed.
C1_CardConservation ==
    (Returned /\ stepped = "Cont") =>
        CardBag(computer \o player) = CardBag(before.computer \o before.player)

C1_Witness ==
    /\ Returned
    /\ stepped = "Cont"
    /\ ties >= 2
    /\ Len(computer) + Len(player) = Len(before.computer) + Len(before.player)

NonWarInput ==
    /\ Returned
    /\ before.computer # <<>>
    /\ before.player # <<>>
    /\ before.moves < MAX_MOVES
    /\ Head(before.computer) # Head(before.player)

\* C2: with both decks non-empty, the move-count below the cap and different
\* front cards, step returns Cont; the side with the higher card gets its
\* remaining cards, then its own card, then the opponent's card; the other
\* side keeps its remaining cards; the move-count is the input's plus 1.
C2_NonWarRound ==
    NonWarInput =>
        LET c == Head(before.computer)
            p == Head(before.player)
        IN  /\ stepped = "Cont"
            /\ moves = before.moves + 1
            /\ IF c < p
               THEN /\ player = Tail(before.player) \o <<p, c>>
                    /\ computer = Tail(before.computer)
               ELSE /\ computer = Tail(before.computer) \o <<c, p>>
                    /\ player = Tail(before.player)

C2_Witness ==
    /\ Returned
    /\ before = GameState(<<2, 3>>, <<4, 5>>, 6)
    /\ stepped = "Cont"
    /\ computer = <<3>>
    /\ player = <<5, 4, 2>>
    /\ moves = 7

Rest(deck, pile) == SubSeq(deck, Len(pile) + 1, Len(deck))

\* C3: when step returns Cont after one or more ties, each pile is the run of
\* cards its side drew during the call, in order, from the first compared
\* card on (k+1 compared cards and at most 3 more per tie); the winner's deck
\* is its remaining cards, its pile, then the loser's pile; the loser's deck
\* is its remaining cards; the move-count is the input's plus 1.
C3_WarRound ==
    (Returned /\ stepped = "Cont" /\ ties >= 1) =>
        /\ moves = before.moves + 1
        /\ Len(computer_pile) \in (ties + 1)..(4 * ties + 1)
        /\ Len(player_pile) \in (ties + 1)..(4 * ties + 1)
        /\ computer_pile = SubSeq(before.computer, 1, Len(computer_pile))
        /\ player_pile = SubSeq(before.player, 1, Len(player_pile))
        /\ computer_pile[1] = player_pile[1]
        /\ LET c == computer_pile[Len(computer_pile)]
               p == player_pile[Len(player_pile)]
               crest == Rest(before.computer, computer_pile)
               prest == Rest(before.player, player_pile)
           IN  \/ /\ c > p
                  /\ computer = crest \o computer_pile \o player_pile
                  /\ player = prest
               \/ /\ c < p
                  /\ player = prest \o player_pile \o computer_pile
                  /\ computer = crest

C3_Witness ==
    /\ Returned
    /\ before = GameState(<<2, 8, 9, 10, 11>>, <<2, 3, 4, 5, 6, 7>>, 8)
    /\ stepped = "Cont"
    /\ ties = 1
    /\ player = <<7>>
    /\ computer = <<2, 8, 9, 10, 11, 2, 3, 4, 5, 6>>
    /\ moves = 9

ComputerOut == Returned /\ before.computer = <<>> /\ before.player # <<>>

\* C4 as stated: with the computer's deck empty and the player's not, step
\* returns Done(WinAfter(m)), m the input move-count, whatever m is.
C4_WinAnyMoves ==
    ComputerOut => (stepped = "Done" /\ score = WinAfter(before.moves))

\* C4: with the computer's deck empty, the player's not, and the move-count
\* below the cap, step returns Done(WinAfter(m)), m the input move-count.
C4_WinBelowCap ==
    (ComputerOut /\ before.moves < MAX_MOVES) =>
        (stepped = "Done" /\ score = WinAfter(before.moves))

C4_Witness ==
    /\ Returned
    /\ before = GameState(<<>>, <<2>>, 0)
    /\ stepped = "Done"
    /\ score = WinAfter(0)

PlayerOut == Returned /\ before.player = <<>> /\ before.computer # <<>>

\* C5 as stated: with the player's deck empty and the computer's not, step
\* returns Done(LoseAfter(m)), m the input move-count, whatever m is.
C5_LoseAnyMoves ==
    PlayerOut => (stepped = "Done" /\ score = LoseAfter(before.moves))

\* C5: with the player's deck empty, the computer's not, and the move-count
\* below the cap, step returns Done(LoseAfter(m)), m the input move-count.
C5_LoseBelowCap ==
    (PlayerOut /\ before.moves < MAX_MOVES) =>
        (stepped = "Done" /\ score = LoseAfter(before.moves))

C5_Witness ==
    /\ Returned
    /\ before = GameState(<<2>>, <<>>, 0)
    /\ stepped = "Done"
    /\ score = LoseAfter(0)

BothOut == Returned /\ before.computer = <<>> /\ before.player = <<>>

\* C6 as stated: with both decks empty, step returns Done(TiedAt(m)), m the
\* input move-count, whatever m is.
C6_TiedAnyMoves ==
    BothOut => (stepped = "Done" /\ score = TiedAt(before.moves))

\* C6: with both decks empty and the move-count below the cap, step returns
\* Done(TiedAt(m)), m the input move-count.
C6_TiedBelowCap ==
    (BothOut /\ before.moves < MAX_MOVES) =>
        (stepped = "Done" /\ score = TiedAt(before.moves))

C6_Witness ==
    /\ BothOut
    /\ before.moves = MAX_MOVES - 1
    /\ stepped = "Done"
    /\ score = TiedAt(MAX_MOVES - 1)

\* C7: at move-count = cap, step returns Done(FinishWith(n)), n the length of
\* the player's deck, whatever the decks hold, and draws no card: both decks
\* are as they were and both piles are empty.
C7_CapFirst ==
    (Returned /\ before.moves = MAX_MOVES) =>
        /\ stepped = "Done"
        /\ score = FinishWith(Len(before.player))
        /\ computer = before.computer
        /\ player = before.player
        /\ computer_pile = <<>>
        /\ player_pile = <<>>

C7_Witness ==
    /\ Returned
    /\ before.moves = MAX_MOVES
    /\ before.computer = <<>>
    /\ Len(before.player) >= 2
    /\ score = FinishWith(Len(before.player))

\* C10: a call of step that returns Cont returns the input move-count plus 1,
\* however many ties it went through; a call that returns Done with WinAfter,
\* LoseAfter or TiedAt reports the input move-count.
C10_MoveCounting ==
    Returned =>
        /\ stepped = "Cont" => moves = before.moves + 1
        /\ (stepped = "Done" /\ score.tag \in {"WinAfter", "LoseAfter", "TiedAt"})
              => (score.n = before.moves /\ moves = before.moves)

C10_Witness ==
    /\ Returned
    /\ ties >= 2
    /\ stepped = "Cont"
    /\ before.moves = MAX_MOVES - 1
    /\ moves = MAX_MOVES

(***************************************************************************)
(* Properties of play_game and of the war loop                             *)
(***************************************************************************)
\* C11: the move-count never exceeds the cap and the assertion of the cap
\* branch never fails: no call of step panics and no Cont carries a
\* move-count above the cap.
C11_CapNeverBreached == moves <= MAX_MOVES /\ stepped # "Panic"

C11_Witness ==
    /\ Returned
    /\ stepped = "Cont"
    /\ moves = MAX_MOVES
    /\ computer # <<>>
    /\ player # <<>>

\* C12: play_game reaches Done: every call of step either returns Done or
\* brings the move-count one closer to the cap without passing it; inside a
\* call every tie takes a card from each deck, so there are no more ties
\* than cards in the smaller deck; and a game started at move-count m, within
\* MaxMovesIn of the cap, does reach Done, after at most cap - m + 1 calls.
C12_Termination ==
    /\ [][calls' # calls => (stepped' = "Done"
                      \/ (moves' = moves + 1 /\ moves' <= MAX_MOVES))]_vars
    /\ []((Returned /\ before.moves < MAX_MOVES) =>
            /\ ties <= Len(before.computer)
            /\ ties <= Len(before.player))
    /\ \A m \in (MAX_MOVES - MaxMovesIn)..MAX_MOVES :
          (calls = 0 /\ moves = m) ~>
              (stepped = "Done" /\ calls <= MAX_MOVES - m + 1)

C12_Witness ==
    /\ calls >= 2
    /\ stepped = "Done"
    /\ before.moves = MAX_MOVES
    /\ score = FinishWith(Len(player))
    /\ vals = <<MAX_MOVES + Len(player)>>

Min(a, b) == IF a < b THEN a ELSE b

WarExhausted ==
    /\ Returned
    /\ before.moves < MAX_MOVES
    /\ ties >= 1
    /\ \/ Len(before.computer) <= 4 * ties
       \/ Len(before.player) <= 4 * ties

\* C13: when a deck runs out during the supplementary draws that follow a
\* tie, the call goes on to the next primary draw: each side's pile holds the
\* cards it had, up to 4 per tie, and the call returns Done with TiedAt(m) if
\* both decks ran out, WinAfter(m) if only the computer's did, LoseAfter(m) if
\* only the player's did, m the input move-count; it never returns Cont.
C13_ExhaustionAtPrimaryDraw ==
    WarExhausted =>
        LET cout == Len(before.computer) <= 4 * ties
            pout == Len(before.player) <= 4 * ties
        IN  /\ stepped = "Done"
            /\ score = IF cout /\ pout THEN TiedAt(before.moves)
                       ELSE IF cout THEN WinAfter(before.moves)
                       ELSE LoseAfter(before.moves)
            /\ computer_pile =
                  SubSeq(before.computer, 1, Min(Len(before.computer), 4 * ties))
            /\ player_pile =
                  SubSeq(before.player, 1, Min(Len(before.player), 4 * ties))

C13_Witness ==
    /\ Returned
    /\ before = GameState(<<2, 14, 14, 14, 2>>, <<2, 2, 2, 2, 2>>, 2)
    /\ stepped = "Done"
    /\ score = TiedAt(2)

StateDecks == {computer, player, before.computer, before.player}

\* C14: draw on an empty deck returns None and leaves the deck empty; on a
\* non-empty deck it returns the front card and leaves the deck without its
\* first element.
C14_Draw ==
    \A d \in StateDecks :
        LET r == draw(d)
        IN  IF Len(d) = 0
            THEN ~r.some /\ r.deck = d
            ELSE /\ r.some
                 /\ r.card = d[1]
                 /\ r.deck = SubSeq(d, 2, Len(d))

C14_Witness ==
    /\ computer = <<>>
    /\ ~draw(computer).some
    /\ Len(player) >= 2
    /\ player[1] # player[Len(player)]
    /\ draw(player).card = player[1]

\* C17: in every call of step that returns Cont both piles hold 4k+1 cards,
\* k the number of ties of the call; the winner's deck grows by 4k+1 cards
\* and the loser's deck shrinks by 4k+1 cards.
C17_PileSizes ==
    (Returned /\ stepped = "Cont") =>
        LET n == 4 * ties + 1
        IN  /\ Len(computer_pile) = n
            /\ Len(player_pile) = n
            /\ \/ /\ Len(computer) = Len(before.computer) + n
                  /\ Len(player) = Len(before.player) - n
               \/ /\ Len(player) = Len(before.player) + n
                  /\ Len(computer) = Len(before.computer) - n

C17_Witness ==
    /\ Returned
    /\ stepped = "Cont"
    /\ ties = 2
    /\ Len(player_pile) = 9
    /\ Len(player) = Len(before.player) + 9

\* C18: WinAfter(m), LoseAfter(m) and TiedAt(m) are returned only with m
\* below the cap; FinishWith(c) is returned only at move-count = cap, with c
\* between 0 and the number of cards in the game, itself at most 2*13*256; so
\* MAX_MOVES - moves never underflows in to_int, and a WinAfter that main
\* reports maps above every FinishWith.
C18_PayloadRanges ==
    (Returned /\ stepped = "Done") =>
        /\ score.tag \in {"WinAfter", "LoseAfter", "TiedAt", "FinishWith"}
        /\ score.tag # "FinishWith" => (score.n >= 0 /\ score.n < MAX_MOVES)
        /\ score.tag = "FinishWith" =>
              /\ before.moves = MAX_MOVES
              /\ score.n >= 0
              /\ score.n <= Len(before.computer) + Len(before.player)
              /\ score.n <= AllCards
        /\ ~to_int_underflows(score)
        /\ args # <<>> =>
              /\ args[1].tag = "WinAfter" => vals[1] > to_int(FinishWith(AllCards))
              /\ args[1].tag = "FinishWith" => vals[1] <= to_int(FinishWith(AllCards))

C18_Witness ==
    /\ Returned
    /\ stepped = "Done"
    /\ before.moves = MAX_MOVES - 1
    /\ args = <<WinAfter(MAX_MOVES - 1)>>
    /\ vals = <<MAX_MOVES + AllCards + 1>>

(***************************************************************************)
(* Properties of a new game                                                *)
(***************************************************************************)
\* the deck of new_half_deck is SUITS_PER_PLAYER ascending runs 2..14
FullDeckAscending ==
    /\ Len(new_half_deck) = RANKS_PER_SUIT * SUITS_PER_PLAYER
    /\ \A i \in DOMAIN new_half_deck :
          new_half_deck[i] = MinRank + ((i - 1) % RANKS_PER_SUIT)

\* C15: a new game has move-count 0, a computer deck of ascending runs (256
\* runs 2..14, 3328 cards, in the program; GameSuits runs of GameRanks ranks
\* in the games played here) and a player deck that is a permutation of the
\* computer's deck, of the same size.
C15_NewGame ==
    calls = 0 =>
        /\ moves = 0
        /\ Len(computer) = GameSuits * GameRanks
        /\ \A i \in DOMAIN computer : computer[i] = MinRank + ((i - 1) % GameRanks)
        /\ Len(player) = Len(computer)
        /\ CardBag(player) = CardBag(computer)
        /\ FullDeckAscending

C15_Witness ==
    /\ calls = 0
    /\ moves = 0
    /\ player # computer
    /\ player[1] > computer[1]
    /\ CardBag(player) = CardBag(computer)

\* C16: in every state a new game reaches before Done the two decks hold
\* all the cards dealt, so at least one deck is non-empty; Done(TiedAt) is
\* returned only by a call in which a tie occurred.
C16_NeverBothEmpty ==
    /\ stepped \in {"New", "Cont"} =>
          /\ computer # <<>> \/ player # <<>>
          /\ Len(computer) + Len(player) = 2 * Len(game_half_deck)
    /\ (stepped = "Done" /\ score.tag = "TiedAt") => ties >= 1

C16_Witness ==
    /\ stepped = "Done"
    /\ score.tag = "TiedAt"
    /\ calls >= 2
    /\ ties >= 1

(***************************************************************************)
(* Properties of to_int                                                    *)
(***************************************************************************)
Evaluated == Len(args) = 2 /\ Len(vals) = 2

Tags(a, b) == args[1].tag = a /\ args[2].tag = b

\* C8 as stated: any LoseAfter value < any TiedAt value < any FinishWith
\* value < any WinAfter value, for payloads in 0..cap and 0..2*13*256.
C8_StrictChain ==
    Evaluated =>
        /\ Tags("LoseAfter", "TiedAt") => vals[1] < vals[2]
        /\ Tags("TiedAt", "FinishWith") => vals[1] < vals[2]
        /\ Tags("FinishWith", "WinAfter") => vals[1] < vals[2]

\* C8: any LoseAfter value < any TiedAt value < any WinAfter value; any
\* LoseAfter value <= any FinishWith value <= any WinAfter value, with
\* equality only for LoseAfter(cap), FinishWith(0) and for
\* FinishWith(2*13*256), WinAfter(cap); a TiedAt value is below a
\* FinishWith(c) value exactly when c > 13*256.
C8_CategoryOrder ==
    Evaluated =>
        /\ Tags("LoseAfter", "TiedAt") => vals[1] < vals[2]
        /\ Tags("TiedAt", "WinAfter") => vals[1] < vals[2]
        /\ Tags("LoseAfter", "FinishWith") =>
              /\ vals[1] <= vals[2]
              /\ vals[1] = vals[2] <=> (args[1].n = MAX_MOVES /\ args[2].n = 0)
        /\ Tags("FinishWith", "WinAfter") =>
              /\ vals[1] <= vals[2]
              /\ vals[1] = vals[2] <=>
                    (args[1].n = AllCards /\ args[2].n = MAX_MOVES)
        /\ Tags("TiedAt", "FinishWith") =>
              (vals[1] < vals[2] <=> args[2].n > HalfCards)

C8_Witness ==
    /\ Evaluated
    /\ args = <<FinishWith(AllCards), WinAfter(MAX_MOVES)>>
    /\ vals[1] = vals[2]

\* C9: of two wins the one with fewer moves maps to the larger integer, and
\* LoseAfter(m) maps to m.
C9_FasterWinsHigher ==
    /\ (Evaluated /\ Tags("WinAfter", "WinAfter") /\ args[1].n < args[2].n)
          => vals[1] > vals[2]
    /\ \A i \in 1..Len(vals) : args[i].tag = "LoseAfter" => vals[i] = args[i].n

C9_Witness ==
    /\ Evaluated
    /\ args = <<WinAfter(0), WinAfter(MAX_MOVES)>>
    /\ vals[1] = vals[2] + MAX_MOVES

====
